---- MODULE Spec2Model ----
(***************************************************************************)
(* Token lifecycle of squads-cli: TeamsClient (src/api/client.rs) with its *)
(* in-memory TokenStore behind an RwLock, the tokens.json artifact written *)
(* through Cache (src/cache.rs), the provider exchanges of src/api/auth.rs *)
(* and the device-code polling loop of `auth login` (src/cli/auth.rs).     *)
(*                                                                         *)
(* Spec      : concurrent callers sharing one TeamsClient.                 *)
(* SeqSpec   : the same client used by a single caller.                    *)
(* GetSpec   : concurrent get_token callers on an authenticated client.    *)
(* RaceSpec  : one operation per caller, interleaved within one second.    *)
(* CacheSpec : one process, any token map, against its tokens.json.        *)
(* LoginSpec : one `auth login` process (a fresh TeamsClient built from    *)
(*             whatever tokens.json holds).                                *)
(* ReloginSpec: a client holding the entries of an earlier session, on     *)
(*             which a new login stores its refresh token.                 *)
(* CmdSpec   : CLI commands run one after the other, each a new process    *)
(*             that builds its client from tokens.json.                    *)
(* LockSpec  : RaceSpec with the acquisition of the store's RwLock as a    *)
(*             step of its own.                                            *)
(* ExpirySpec: the four exchanges parsing the expiry field of a response.  *)
(***************************************************************************)
EXTENDS Integers, Sequences, FiniteSets, TLC

\* ------------------------------------------------------------------ bounds
\* The clock (epoch seconds) runs 0..MaxTime.
MaxTime == 2
\* Operations started on the shared client in one behaviour.
MaxCalls == 3
\* Callers (tasks) sharing the client.
Callers == {"c1", "c2"}
\* Lifetimes (expires_in, seconds) the provider may declare.
ExpiresIn == {1, 2}
\* Characters of a string-valued expiry field.
MaxChars == 2

\* ------------------------------------------------------- program constants
SCOPE_SPACES == "spaces"
SCOPE_GRAPH == "graph"
REFRESH_TOKEN == "refresh_token"
SKYPE_TOKEN == "skype_token"
max_attempts == 60

\* The scopes callers ask for.
Scopes == {SCOPE_SPACES, SCOPE_GRAPH}

VARIABLES
    now,      \* get_epoch_s(): wall clock, seconds
    tokens,   \* TeamsClient.tokens: the TokenStore map, name -> AccessToken
    file,     \* the tokens.json artifact: [state, content]
    task,     \* per caller: the operation in progress, its locals, its result
    calls,    \* operations started so far on the shared client
    login     \* the `auth login` process

vars == <<now, tokens, file, task, calls, login>>

\* ------------------------------------------------------------------- types
\* AccessToken { value, expires }
AccessToken(v, e) == [value |-> v, expires |-> e]

\* An Option<AccessToken> is the empty set or a singleton.
None == {}
Some(t) == {t}
Unwrap(o) == CHOOSE t \in o : TRUE

\* TokenStore::default(): the empty map.
EmptyStore == [k \in {} |-> AccessToken(0, 0)]

\* TokenStore::get
Get(m, k) == IF k \in DOMAIN m THEN Some(m[k]) ELSE None

\* Mutant: an entry already present is kept (first write wins).
Insert_IfAbsent(m, k, t) ==
    [x \in (DOMAIN m) \cup {k} |-> IF x \in DOMAIN m THEN m[x] ELSE t]

\* TokenStore::insert
Insert(m, k, t) == [x \in (DOMAIN m) \cup {k} |-> IF x = k THEN t ELSE m[x]]

\* TokenStore::refresh_token / skype_token
refresh_token(m) == Get(m, REFRESH_TOKEN)
skype_token(m) == Get(m, SKYPE_TOKEN)

\* ------------------------------------------------------------------- cache
\* Mutant: the expires field is not written.
Serialize_NoExpires(m) == {<<k, m[k].value, 0>> : k \in DOMAIN m}

\* serde_json::to_string_pretty(&TokenStore): the JSON object
\* {tokens: {name: {value, expires}}}, as the set of its members.
Serialize(m) == {<<k, m[k].value, m[k].expires>> : k \in DOMAIN m}

\* serde_json::from_str::<TokenStore>: the map of a JSON object.
Deserialize(c) ==
    [k \in {x[1] : x \in c} |->
        LET x == CHOOSE y \in c : y[1] = k IN AccessToken(x[2], x[3])]

FileAbsent == [state |-> "absent", content |-> {}]
FileCorrupt == [state |-> "corrupt", content |-> {}]
FileOf(m) == [state |-> "ok", content |-> Serialize(m)]

\* Cache::save: fs::write of the serialized map. A write that fails leaves
\* the old artifact or a truncated one.
CacheSave(f, m) ==
    {[ok |-> TRUE, file |-> FileOf(m)],
     [ok |-> FALSE, file |-> f],
     [ok |-> FALSE, file |-> FileCorrupt]}

\* Cache::load: Ok(None) when absent, Err on a read/parse failure.
CacheLoad(f) ==
    CASE f.state = "absent" -> [ok |-> TRUE, data |-> {}]
      [] f.state = "corrupt" -> [ok |-> FALSE, data |-> {}]
      [] OTHER -> [ok |-> TRUE, data |-> {Deserialize(f.content)}]

\* Mutant: remove_file is called without the exists() test.
CacheDelete_NoExistsTest(f) ==
    IF f.state = "absent"
    THEN {[ok |-> FALSE, file |-> f]}
    ELSE {[ok |-> TRUE, file |-> FileAbsent], [ok |-> FALSE, file |-> f]}

\* Cache::delete: nothing to do when the file is absent; remove_file may fail
\* and then leaves the file in place.
CacheDelete(f) ==
    IF f.state = "absent"
    THEN {[ok |-> TRUE, file |-> f]}
    ELSE {[ok |-> TRUE, file |-> FileAbsent], [ok |-> FALSE, file |-> f]}

\* Mutant: a tokens.json that cannot be read or parsed counts as absent.
NewClient_Lenient(f) ==
    [ok |-> TRUE,
     tokens |-> IF f.state = "ok" THEN Deserialize(f.content) ELSE EmptyStore]

\* TeamsClient::new (client.rs:54-66): cache.load(TOKENS_FILE)? propagates a
\* read or parse failure; unwrap_or_default() gives the empty store when the
\* file is absent.
NewClient(f) ==
    LET r == CacheLoad(f) IN
      IF r.ok
      THEN [ok |-> TRUE,
            tokens |-> IF r.data = {} THEN EmptyStore ELSE Unwrap(r.data)]
      ELSE [ok |-> FALSE, tokens |-> EmptyStore]

\* ---------------------------------------------------------------- provider
\* A successful exchange read at clock t: AccessToken { value, expires:
\* get_epoch_s() + expires_in } (renew_refresh_token, gen_token,
\* gen_skype_token, gen_refresh_token_from_device_code). The opaque value is
\* named after the second the provider issued it in.
ProviderTokens(t) == {AccessToken(t, t + e) : e \in ExpiresIn}

\* Result<AccessToken>
Ok(t) == [ok |-> TRUE, token |-> Some(t), err |-> ""]
Err(e) == [ok |-> FALSE, token |-> None, err |-> e]
NoResult == [ok |-> FALSE, token |-> None, err |-> "running"]

\* One network request: which exchange, and the token it presents.
NetCall(kind, used) == [kind |-> kind, used |-> used]

\* ---------------------------------------------- expiry field of a response
\* The lifetime taken when the expiry field gives none: unwrap_or(3600).
DefaultExpiresIn == 3600

\* The serde_json::Value under the response's expiry key ("expires_in",
\* "expiresIn"): no such key, a JSON number, or a JSON string (a sequence of
\* characters).
JsonAbsent == [type |-> "absent", n |-> 0, s |-> <<>>]
JsonNumber(n) == [type |-> "number", n |-> n, s |-> <<>>]
JsonString(s) == [type |-> "string", n |-> 0, s |-> s]

\* Value::as_str / Value::as_u64 after HashMap::get: an Option.
AsStr(v) == IF v.type = "string" THEN Some(v.s) ELSE None
AsU64(v) == IF v.type = "number" /\ v.n >= 0 THEN Some(v.n) ELSE None

DigitValue ==
    [c \in {"0", "1", "2", "3", "4", "5", "6", "7", "8", "9"} |->
        CASE c = "0" -> 0 [] c = "1" -> 1 [] c = "2" -> 2 [] c = "3" -> 3
          [] c = "4" -> 4 [] c = "5" -> 5 [] c = "6" -> 6 [] c = "7" -> 7
          [] c = "8" -> 8 [] OTHER -> 9]

\* The number a non-empty sequence of digits writes, None with any other
\* character in it.
RECURSIVE Digits(_)
Digits(s) ==
    IF Len(s) = 0 THEN Some(0)
    ELSE LET c == s[Len(s)]
             rest == Digits(SubSeq(s, 1, Len(s) - 1)) IN
           IF c \in DOMAIN DigitValue /\ rest # None
           THEN Some(10 * Unwrap(rest) + DigitValue[c])
           ELSE None

\* str::parse::<u64>().ok(): decimal digits after an optional "+"; the empty
\* string and any other character give None.
ParseU64(s) ==
    LET d == IF Len(s) > 0 /\ s[1] = "+" THEN SubSeq(s, 2, Len(s)) ELSE s IN
      IF Len(d) = 0 THEN None ELSE Digits(d)

\* Option::and_then(parse) / Option::unwrap_or
UnwrapOr(o, d) == IF o = None THEN d ELSE Unwrap(o)

\* auth.rs:115-119: gen_refresh_token_from_device_code reads "expires_in" as
\* a string and parses it.
PollExpiresIn(v) ==
    LET str == AsStr(v) IN
      UnwrapOr(IF str = None THEN None ELSE ParseU64(Unwrap(str)),
               DefaultExpiresIn)

\* auth.rs:171-174, 228-231, 279-282: renew_refresh_token, gen_token and
\* gen_skype_token read theirs as an unsigned number.
NumberExpiresIn(v) == UnwrapOr(AsU64(v), DefaultExpiresIn)

\* expires_in of an exchange of the given kind.
ExpiresInOf(kind, v) ==
    IF kind = "poll" THEN PollExpiresIn(v) ELSE NumberExpiresIn(v)

\* The token an exchange answered at clock t builds: AccessToken { value,
\* expires: get_epoch_s() + expires_in }.
IssuedToken(kind, v, t) == AccessToken(t, t + ExpiresInOf(kind, v))

\* ------------------------------------------------------------------- tasks
\* A caller with no operation in progress.
Idle ==
    [op |-> "none", pc |-> "idle", scope |-> "",
     refresh_token |-> None,    \* get_token: let refresh_token
     existing_token |-> None,   \* get_token / get_skype_token: let existing_token
     new_token |-> None,        \* let new_token
     spaces_token |-> None,     \* get_skype_token: let spaces_token
     ret |-> NoResult,          \* what the operation returned
     net |-> <<>>,              \* the network requests the operation sent
     wrote |-> {},              \* the keys the operation inserted in memory
     cleared |-> FALSE,         \* the operation emptied the in-memory map
     saves |-> 0,               \* the cache writes / deletes it attempted
     rtTest |-> "none",         \* its refresh token's expiry test: "valid"
                                \* (expires >= now) or "expired"
     renewed |-> None,          \* the refresh token its renewal obtained
     seen |-> None,             \* the cached entry its last expiry test read
     seenAt |-> 0,              \* the clock value that test read (0: no entry)
     hit |-> FALSE,             \* a cached entry was returned to the caller
     skTest |-> "none",         \* get_skype_token's look at "skype_token":
                                \* "absent", "expired" or "hit"
     resp |-> JsonAbsent,       \* the expiry field of the response it parsed
     lock |-> "none"]           \* the guard it holds on the store's RwLock:
                                \* "none", "read" or "write"

\* The exchanges an operation sent, in order.
Kinds(net) == [i \in 1..Len(net) |-> net[i].kind]

\* The operation returns r: its locals are dropped.
Done(t, r) ==
    [t EXCEPT !.pc = "done", !.ret = r, !.refresh_token = None,
              !.existing_token = None, !.new_token = None,
              !.spaces_token = None]

\* get_token returns r to its caller: to the task itself, or to
\* get_skype_token (client.rs:161), which propagates an error with `?` and
\* otherwise sends the derivation request with the spaces token.
GtReturn(t, r) ==
    IF t.op = "get_skype_token" /\ r.ok
    THEN [t EXCEPT !.pc = "sk_derive", !.spaces_token = r.token,
                   !.refresh_token = None, !.existing_token = None,
                   !.new_token = None,
                   !.net = Append(@, NetCall("derive", Unwrap(r.token)))]
    ELSE Done(t, r)

\* Mutant: the guard outlives its block.
Unlock_Leak(t) == t

\* The end of the block a lock guard was taken in (client.rs:84, 93, 103,
\* 111, 127, 140, 168; save_tokens' return at 77): the guard is dropped.
Unlock(t) == [t EXCEPT !.lock = "none"]

\* A step of caller p ends with its record t and no guard alive.
Set(p, t) == task' = [task EXCEPT ![p] = Unlock(t)]

\* ------------------------------------------- TeamsClient::get_token (98-144)
\* Mutant: a missing refresh token is not rejected.
GtReadRefresh_NoCheck(p) ==
    /\ task[p].pc = "gt_read_refresh"
    /\ LET rt == refresh_token(tokens) IN
         Set(p, [task[p] EXCEPT !.pc = "gt_check_refresh",
                                !.refresh_token =
                                    IF rt = None THEN Some(AccessToken(0, 0))
                                    ELSE rt])
    /\ UNCHANGED <<now, tokens, file, calls, login>>

\* client.rs:100-103, 116-120: read "refresh_token" under the read lock;
\* None returns the "Not authenticated" error at once.
GtReadRefresh(p) ==
    /\ task[p].pc = "gt_read_refresh"
    /\ LET rt == refresh_token(tokens) IN
         IF rt = None
         THEN Set(p, GtReturn(task[p], Err("NotAuthenticated")))
         ELSE Set(p, [task[p] EXCEPT !.pc = "gt_check_refresh",
                                     !.refresh_token = rt])
    /\ UNCHANGED <<now, tokens, file, calls, login>>

\* client.rs:106-107, 115: `token.expires < get_epoch_s()` sends the renewal
\* request; otherwise the token is used as it is.
GtCheckRefresh(p) ==
    /\ task[p].pc = "gt_check_refresh"
    /\ LET token == Unwrap(task[p].refresh_token) IN
         IF token.expires < now
         THEN Set(p, [task[p] EXCEPT !.pc = "gt_renew",
                                     !.rtTest = "expired",
                                     !.net = Append(@, NetCall("renew", token))])
         ELSE Set(p, [task[p] EXCEPT !.pc = "gt_read_scope",
                                     !.rtTest = "valid"])
    /\ UNCHANGED <<now, tokens, file, calls, login>>

\* Mutant: a failed renewal is swallowed and the stale token is kept.
GtRenew_Swallow(p) ==
    /\ task[p].pc = "gt_renew"
    /\ \/ Set(p, [task[p] EXCEPT !.pc = "gt_read_scope"])
       \/ \E nt \in ProviderTokens(now) :
            Set(p, [task[p] EXCEPT !.pc = "gt_renew_insert",
                                   !.new_token = Some(nt),
                                   !.renewed = Some(nt)])
    /\ UNCHANGED <<now, tokens, file, calls, login>>

\* client.rs:107 with auth.rs:128-180: the renewal answers; an error is
\* propagated by `?`.
GtRenew(p) ==
    /\ task[p].pc = "gt_renew"
    /\ \/ Set(p, GtReturn(task[p], Err("TokenExchangeFailed")))
       \/ \E nt \in ProviderTokens(now) :
            Set(p, [task[p] EXCEPT !.pc = "gt_renew_insert",
                                   !.new_token = Some(nt),
                                   !.renewed = Some(nt)])
    /\ UNCHANGED <<now, tokens, file, calls, login>>

\* Mutant: the renewed token is not inserted.
GtRenewInsert_Skip(p) ==
    /\ task[p].pc = "gt_renew_insert"
    /\ Set(p, [task[p] EXCEPT !.pc = "gt_renew_save"])
    /\ UNCHANGED <<now, tokens, file, calls, login>>

\* client.rs:108-111: insert the renewed token under the write lock.
GtRenewInsert(p) ==
    /\ task[p].pc = "gt_renew_insert"
    /\ tokens' = Insert(tokens, REFRESH_TOKEN, Unwrap(task[p].new_token))
    /\ Set(p, [task[p] EXCEPT !.pc = "gt_renew_save",
                              !.wrote = @ \cup {REFRESH_TOKEN}])
    /\ UNCHANGED <<now, file, calls, login>>

\* Mutant: the scope exchange goes on with the token read before the renewal.
GtRenewSave_KeepStale(p) ==
    /\ task[p].pc = "gt_renew_save"
    /\ \E r \in CacheSave(file, tokens) :
         /\ file' = r.file
         /\ IF r.ok
            THEN Set(p, [task[p] EXCEPT !.pc = "gt_read_scope",
                                        !.new_token = None,
                                        !.saves = @ + 1])
            ELSE Set(p, GtReturn([task[p] EXCEPT !.saves = @ + 1],
                                 Err("CacheIOError")))
    /\ UNCHANGED <<now, tokens, calls, login>>

\* client.rs:112-113: save_tokens()?; the renewed token becomes
\* `refresh_token`.
GtRenewSave(p) ==
    /\ task[p].pc = "gt_renew_save"
    /\ \E r \in CacheSave(file, tokens) :
         /\ file' = r.file
         /\ IF r.ok
            THEN Set(p, [task[p] EXCEPT !.pc = "gt_read_scope",
                                        !.refresh_token = task[p].new_token,
                                        !.new_token = None,
                                        !.saves = @ + 1])
            ELSE Set(p, GtReturn([task[p] EXCEPT !.saves = @ + 1],
                                 Err("CacheIOError")))
    /\ UNCHANGED <<now, tokens, calls, login>>

\* The scope exchange request is sent with the local `refresh_token`.
SendExchange(t) ==
    [t EXCEPT !.pc = "gt_exchange",
              !.net = Append(@, NetCall("exchange", Unwrap(t.refresh_token)))]

\* client.rs:124-129, 136: read the scope entry under the read lock; with no
\* entry the exchange request is sent.
GtReadScope(p) ==
    /\ task[p].pc = "gt_read_scope"
    /\ LET existing == Get(tokens, task[p].scope) IN
         IF existing = None
         THEN Set(p, SendExchange([task[p] EXCEPT !.existing_token = None,
                                                  !.seen = None,
                                                  !.seenAt = 0]))
         ELSE Set(p, [task[p] EXCEPT !.pc = "gt_check_scope",
                                     !.existing_token = existing])
    /\ UNCHANGED <<now, tokens, file, calls, login>>

\* Mutant: a token in its last second but one is already taken as expired.
StillValid_Late(token, t) == token.expires > t + 1

\* client.rs:130: the cached token's expiry test.
StillValid(token, t) == token.expires >= t

\* client.rs:129-133, 136: return the cached token when it passes the test,
\* else send the exchange request.
GtCheckScope(p) ==
    /\ task[p].pc = "gt_check_scope"
    /\ LET token == Unwrap(task[p].existing_token) IN
         IF StillValid(token, now)
         THEN Set(p, GtReturn([task[p] EXCEPT !.seen = Some(token),
                                              !.seenAt = now, !.hit = TRUE],
                              Ok(token)))
         ELSE Set(p, SendExchange([task[p] EXCEPT !.seen = Some(token),
                                                  !.seenAt = now]))
    /\ UNCHANGED <<now, tokens, file, calls, login>>

\* Mutant: a failed scope exchange drops the stale entry from the map.
GtExchange_Evict(p) ==
    /\ task[p].pc = "gt_exchange"
    /\ \/ /\ Set(p, GtReturn(task[p], Err("TokenExchangeFailed")))
          /\ tokens' = [k \in DOMAIN tokens \ {task[p].scope} |-> tokens[k]]
       \/ /\ \E nt \in ProviderTokens(now) :
               Set(p, [task[p] EXCEPT !.pc = "gt_insert",
                                      !.new_token = Some(nt)])
          /\ tokens' = tokens
    /\ UNCHANGED <<now, file, calls, login>>

\* Mutant: a failed scope exchange puts back the refresh token the call
\* started with.
GtExchange_Rollback(p) ==
    /\ task[p].pc = "gt_exchange"
    /\ \/ /\ Set(p, GtReturn(task[p], Err("TokenExchangeFailed")))
          /\ tokens' = IF task[p].renewed = None THEN tokens
                       ELSE Insert(tokens, REFRESH_TOKEN, task[p].net[1].used)
       \/ /\ \E nt \in ProviderTokens(now) :
               Set(p, [task[p] EXCEPT !.pc = "gt_insert",
                                      !.new_token = Some(nt)])
          /\ tokens' = tokens
    /\ UNCHANGED <<now, file, calls, login>>

\* client.rs:136 with auth.rs:183-237: the scope exchange answers.
GtExchange(p) ==
    /\ task[p].pc = "gt_exchange"
    /\ \/ Set(p, GtReturn(task[p], Err("TokenExchangeFailed")))
       \/ \E nt \in ProviderTokens(now) :
            Set(p, [task[p] EXCEPT !.pc = "gt_insert", !.new_token = Some(nt)])
    /\ UNCHANGED <<now, tokens, file, calls, login>>

\* Mutant: the insert replaces the map by the one new entry.
GtInsert_Replace(p) ==
    /\ task[p].pc = "gt_insert"
    /\ tokens' = Insert(EmptyStore, task[p].scope, Unwrap(task[p].new_token))
    /\ Set(p, [task[p] EXCEPT !.pc = "gt_save",
                              !.wrote = @ \cup {task[p].scope}])
    /\ UNCHANGED <<now, file, calls, login>>

\* client.rs:137-140: insert the scope token under the write lock.
GtInsert(p) ==
    /\ task[p].pc = "gt_insert"
    /\ tokens' = Insert(tokens, task[p].scope, Unwrap(task[p].new_token))
    /\ Set(p, [task[p] EXCEPT !.pc = "gt_save",
                              !.wrote = @ \cup {task[p].scope}])
    /\ UNCHANGED <<now, file, calls, login>>

\* Mutant: the result of the cache write is ignored.
GtSave_IgnoreError(p) ==
    /\ task[p].pc = "gt_save"
    /\ \E r \in CacheSave(file, tokens) :
         /\ file' = r.file
         /\ Set(p, GtReturn([task[p] EXCEPT !.saves = @ + 1],
                            Ok(Unwrap(task[p].new_token))))
    /\ UNCHANGED <<now, tokens, calls, login>>

\* client.rs:141-143: save_tokens()?; Ok(new_token).
GtSave(p) ==
    /\ task[p].pc = "gt_save"
    /\ \E r \in CacheSave(file, tokens) :
         /\ file' = r.file
         /\ IF r.ok
            THEN Set(p, GtReturn([task[p] EXCEPT !.saves = @ + 1],
                                 Ok(Unwrap(task[p].new_token))))
            ELSE Set(p, GtReturn([task[p] EXCEPT !.saves = @ + 1],
                                 Err("CacheIOError")))
    /\ UNCHANGED <<now, tokens, calls, login>>

\* ------------------------------------ TeamsClient::get_skype_token (147-172)
\* The call of get_token(SCOPE_SPACES) at client.rs:161.
CallSpaces(t) == [t EXCEPT !.pc = "gt_read_refresh", !.scope = SCOPE_SPACES,
                           !.existing_token = None]

\* client.rs:149-154, 161: read "skype_token" under the read lock.
SkRead(p) ==
    /\ task[p].pc = "sk_read"
    /\ LET existing == skype_token(tokens) IN
         IF existing = None
         THEN Set(p, CallSpaces([task[p] EXCEPT !.skTest = "absent"]))
         ELSE Set(p, [task[p] EXCEPT !.pc = "sk_check",
                                     !.existing_token = existing])
    /\ UNCHANGED <<now, tokens, file, calls, login>>

\* Mutant: the cached skype token is returned only while the spaces entry
\* passes the test too.
SkCheck_NeedsSpaces(p) ==
    /\ task[p].pc = "sk_check"
    /\ LET token == Unwrap(task[p].existing_token)
           spaces == Get(tokens, SCOPE_SPACES) IN
         IF /\ token.expires >= now
            /\ spaces # None
            /\ Unwrap(spaces).expires >= now
         THEN Set(p, Done([task[p] EXCEPT !.seen = Some(token),
                                          !.seenAt = now, !.hit = TRUE,
                                          !.skTest = "hit"],
                          Ok(token)))
         ELSE Set(p, CallSpaces([task[p] EXCEPT !.seen = Some(token),
                                                !.seenAt = now,
                                                !.skTest = "expired"]))
    /\ UNCHANGED <<now, tokens, file, calls, login>>

\* client.rs:155-158, 161: return the cached skype token when it passes the
\* test, else ask for the spaces token.
SkCheck(p) ==
    /\ task[p].pc = "sk_check"
    /\ LET token == Unwrap(task[p].existing_token) IN
         IF StillValid(token, now)
         THEN Set(p, Done([task[p] EXCEPT !.seen = Some(token),
                                          !.seenAt = now, !.hit = TRUE,
                                          !.skTest = "hit"],
                          Ok(token)))
         ELSE Set(p, CallSpaces([task[p] EXCEPT !.seen = Some(token),
                                                !.seenAt = now,
                                                !.skTest = "expired"]))
    /\ UNCHANGED <<now, tokens, file, calls, login>>

\* client.rs:164 with auth.rs:240-288: the derivation endpoint answers.
SkDerive(p) ==
    /\ task[p].pc = "sk_derive"
    /\ \/ Set(p, Done(task[p], Err("TokenExchangeFailed")))
       \/ \E nt \in ProviderTokens(now) :
            Set(p, [task[p] EXCEPT !.pc = "sk_insert", !.new_token = Some(nt)])
    /\ UNCHANGED <<now, tokens, file, calls, login>>

\* Mutant: the derived token overwrites the spaces entry.
SkInsert_WrongKey(p) ==
    /\ task[p].pc = "sk_insert"
    /\ tokens' = Insert(tokens, SCOPE_SPACES, Unwrap(task[p].new_token))
    /\ Set(p, [task[p] EXCEPT !.pc = "sk_save",
                              !.wrote = @ \cup {SCOPE_SPACES}])
    /\ UNCHANGED <<now, file, calls, login>>

\* client.rs:165-168
SkInsert(p) ==
    /\ task[p].pc = "sk_insert"
    /\ tokens' = Insert(tokens, SKYPE_TOKEN, Unwrap(task[p].new_token))
    /\ Set(p, [task[p] EXCEPT !.pc = "sk_save",
                              !.wrote = @ \cup {SKYPE_TOKEN}])
    /\ UNCHANGED <<now, file, calls, login>>

\* client.rs:169-171
SkSave(p) ==
    /\ task[p].pc = "sk_save"
    /\ \E r \in CacheSave(file, tokens) :
         /\ file' = r.file
         /\ IF r.ok
            THEN Set(p, Done([task[p] EXCEPT !.saves = @ + 1],
                             Ok(Unwrap(task[p].new_token))))
            ELSE Set(p, Done([task[p] EXCEPT !.saves = @ + 1],
                             Err("CacheIOError")))
    /\ UNCHANGED <<now, tokens, calls, login>>

\* ---------------------------------- TeamsClient::store_refresh_token (80-86)
\* Mutant: the new login starts from an empty map.
StInsert_Reset(p) ==
    /\ task[p].pc = "st_insert"
    /\ tokens' = Insert(EmptyStore, REFRESH_TOKEN, Unwrap(task[p].new_token))
    /\ Set(p, [task[p] EXCEPT !.pc = "st_save",
                              !.wrote = @ \cup {REFRESH_TOKEN}])
    /\ UNCHANGED <<now, file, calls, login>>

StInsert(p) ==
    /\ task[p].pc = "st_insert"
    /\ tokens' = Insert(tokens, REFRESH_TOKEN, Unwrap(task[p].new_token))
    /\ Set(p, [task[p] EXCEPT !.pc = "st_save",
                              !.wrote = @ \cup {REFRESH_TOKEN}])
    /\ UNCHANGED <<now, file, calls, login>>

StSave(p) ==
    /\ task[p].pc = "st_save"
    /\ \E r \in CacheSave(file, tokens) :
         /\ file' = r.file
         /\ Set(p, Done([task[p] EXCEPT !.saves = @ + 1],
                        IF r.ok THEN [ok |-> TRUE, token |-> None, err |-> ""]
                                ELSE Err("CacheIOError")))
    /\ UNCHANGED <<now, tokens, calls, login>>

\* ----------------------------------------- TeamsClient::clear_tokens (89-95)
\* client.rs:90-93: tokens.tokens.clear() under the write lock.
ClClear(p) ==
    /\ task[p].pc = "cl_clear"
    /\ tokens' = EmptyStore
    /\ Set(p, [task[p] EXCEPT !.pc = "cl_delete", !.cleared = TRUE])
    /\ UNCHANGED <<now, file, calls, login>>

\* client.rs:94: self.cache.delete(TOKENS_FILE)
ClDelete(p) ==
    /\ task[p].pc = "cl_delete"
    /\ \E r \in CacheDelete(file) :
         /\ file' = r.file
         /\ Set(p, Done([task[p] EXCEPT !.saves = @ + 1],
                        IF r.ok THEN [ok |-> TRUE, token |-> None, err |-> ""]
                                ELSE Err("CacheIOError")))
    /\ UNCHANGED <<now, tokens, calls, login>>

\* ------------------------------------------------------------------ callers
\* A caller starts an operation once its previous one has returned.
CanCall(p) == task[p].pc \in {"idle", "done"} /\ calls < MaxCalls

Begin(p, t) ==
    /\ CanCall(p)
    /\ Set(p, t)
    /\ calls' = calls + 1
    /\ UNCHANGED <<now, tokens, file, login>>

CallGetToken(p, scope) ==
    Begin(p, [Idle EXCEPT !.op = "get_token", !.pc = "gt_read_refresh",
                          !.scope = scope])

CallGetSkypeToken(p) ==
    Begin(p, [Idle EXCEPT !.op = "get_skype_token", !.pc = "sk_read"])

\* The token handed over is the one a device-code poll produced
\* (cli/auth.rs:129-133).
CallStoreRefreshToken(p, token) ==
    Begin(p, [Idle EXCEPT !.op = "store_refresh_token", !.pc = "st_insert",
                          !.new_token = Some(token)])

CallClearTokens(p) ==
    Begin(p, [Idle EXCEPT !.op = "clear_tokens", !.pc = "cl_clear"])

\* The wall clock advances.
Tick ==
    /\ now < MaxTime
    /\ now' = now + 1
    /\ UNCHANGED <<tokens, file, task, calls, login>>

\* ----------------------------------------------- `auth login` (cli/auth.rs)
LoginOff ==
    [pc |-> "off", attempts |-> 0, token |-> None, ret |-> "none",
     timedOut |-> FALSE, inserts |-> 0, writes |-> 0,
     denied |-> FALSE]   \* the provider answered a poll with a denial

\* What the token endpoint answers to a poll that it does not authorize
\* (auth.rs:98-106: any non-success status is the same Err): the user has
\* not approved yet, or has declined. A declined device code stays declined.
Refusals(l) == IF l.denied THEN {"Denied"} ELSE {"Pending", "Denied"}

LoginDone(l, r) == [l EXCEPT !.pc = "done", !.ret = r]

\* cli/auth.rs:70: gen_device_code(tenant).await?
LoginGenDeviceCode ==
    /\ login.pc = "start"
    /\ \/ login' = [login EXCEPT !.pc = "poll"]
       \/ login' = LoginDone(login, "err")
    /\ UNCHANGED <<now, tokens, file, task, calls>>

\* Mutant: the budget test lets one more poll through.
LoginPoll_OffByOne ==
    /\ login.pc = "poll"
    /\ LET n == login.attempts + 1 IN
         \/ /\ ~login.denied
            /\ \E rt \in ProviderTokens(now) :
                 login' = [login EXCEPT !.attempts = n, !.pc = "new",
                                        !.token = Some(rt)]
         \/ \E answer \in Refusals(login) :
              LET l == [login EXCEPT !.attempts = n,
                                     !.denied = (answer = "Denied")] IN
                IF n > max_attempts
                THEN login' = LoginDone([l EXCEPT !.timedOut = TRUE], "ok")
                ELSE login' = l
    /\ UNCHANGED <<now, tokens, file, task, calls>>

\* cli/auth.rs:125-147: one turn of the loop: sleep, attempts += 1, poll. Ok
\* leaves the loop to store the token; any Err polls again until
\* attempts >= max_attempts, which prints the time-out and returns Ok(()).
LoginPoll ==
    /\ login.pc = "poll"
    /\ LET n == login.attempts + 1 IN
         \/ /\ ~login.denied
            /\ \E rt \in ProviderTokens(now) :
                 login' = [login EXCEPT !.attempts = n, !.pc = "new",
                                        !.token = Some(rt)]
         \/ \E answer \in Refusals(login) :
              LET l == [login EXCEPT !.attempts = n,
                                     !.denied = (answer = "Denied")] IN
                IF n >= max_attempts
                THEN login' = LoginDone([l EXCEPT !.timedOut = TRUE], "ok")
                ELSE login' = l
    /\ UNCHANGED <<now, tokens, file, task, calls>>

\* cli/auth.rs:132 with client.rs:54-66: TeamsClient::new(config)?; the store
\* is what tokens.json holds, or the default when it is absent.
LoginNewClient ==
    /\ login.pc = "new"
    /\ LET r == NewClient(file) IN
         IF r.ok
         THEN /\ tokens' = r.tokens
              /\ login' = [login EXCEPT !.pc = "st_insert"]
         ELSE /\ tokens' = tokens
              /\ login' = LoginDone(login, "err")
    /\ UNCHANGED <<now, file, task, calls>>

\* cli/auth.rs:133 with client.rs:81-84
LoginStoreInsert ==
    /\ login.pc = "st_insert"
    /\ tokens' = Insert(tokens, REFRESH_TOKEN, Unwrap(login.token))
    /\ login' = [login EXCEPT !.pc = "st_save", !.inserts = @ + 1]
    /\ UNCHANGED <<now, file, task, calls>>

\* cli/auth.rs:133-138 with client.rs:85
LoginStoreSave ==
    /\ login.pc = "st_save"
    /\ \E r \in CacheSave(file, tokens) :
         /\ file' = r.file
         /\ login' = LoginDone([login EXCEPT !.writes = @ + 1],
                               IF r.ok THEN "ok" ELSE "err")
    /\ UNCHANGED <<now, tokens, task, calls>>

\* The user interrupts the polling loop.
LoginCancel ==
    /\ login.pc = "poll"
    /\ login' = [login EXCEPT !.pc = "cancelled"]
    /\ UNCHANGED <<now, tokens, file, task, calls>>

\* ---------------------------------------------------------- specifications
Init ==
    /\ now = 0
    /\ tokens = EmptyStore
    /\ file = FileAbsent
    /\ task = [p \in Callers |-> Idle]
    /\ calls = 0
    /\ login = LoginOff

\* Caller p starts an operation.
Call(p) ==
    \/ \E scope \in Scopes : CallGetToken(p, scope)
    \/ CallGetSkypeToken(p)
    \/ \E token \in ProviderTokens(now) : CallStoreRefreshToken(p, token)
    \/ CallClearTokens(p)

\* get_token's steps of caller p, between two lock acquisitions or awaits.
GtStep(p) ==
    \/ GtReadRefresh(p)
    \/ GtCheckRefresh(p)
    \/ GtRenew(p)
    \/ GtRenewInsert(p)
    \/ GtRenewSave(p)
    \/ GtReadScope(p)
    \/ GtCheckScope(p)
    \/ GtExchange(p)
    \/ GtInsert(p)
    \/ GtSave(p)

\* The steps of the other operations.
OtherStep(p) ==
    \/ SkRead(p)
    \/ SkCheck(p)
    \/ SkDerive(p)
    \/ SkInsert(p)
    \/ SkSave(p)
    \/ StInsert(p)
    \/ StSave(p)
    \/ ClClear(p)
    \/ ClDelete(p)

Next ==
    \/ \E p \in Callers : Call(p)
    \/ \E p \in Callers : GtStep(p)
    \/ \E p \in Callers : OtherStep(p)
    \/ Tick

\* Concurrent callers sharing one TeamsClient, from an empty store.
Spec == Init /\ [][Next]_vars

\* The same client used by a single caller, one operation after the other.
Main == "c1"

SeqNext ==
    \/ Call(Main)
    \/ GtStep(Main)
    \/ OtherStep(Main)
    \/ Tick

\* The client is built from what tokens.json holds: nothing, or the scope
\* entry a get_token that raced a logout left behind.
SeqInit ==
    /\ now = 0
    /\ \/ tokens = EmptyStore /\ file = FileAbsent
       \/ /\ tokens = Insert(EmptyStore, SCOPE_GRAPH, AccessToken(-1, 1))
          /\ file = FileOf(tokens)
    /\ task = [p \in Callers |-> Idle]
    /\ calls = 0
    /\ login = LoginOff

SeqSpec == SeqInit /\ [][SeqNext]_vars

\* A client built after a login at second 0 (tokens.json holds the refresh
\* token, which the provider renews from second 2 on), then used by
\* concurrent callers that each call get_token once.
GetInit ==
    /\ now = 0
    /\ tokens = Insert(EmptyStore, REFRESH_TOKEN, AccessToken(0, 1))
    /\ file = FileOf(tokens)
    /\ task = [p \in Callers |-> Idle]
    /\ calls = 0
    /\ login = LoginOff

GetNext ==
    \/ \E p \in Callers, scope \in Scopes :
         task[p].pc = "idle" /\ CallGetToken(p, scope)
    \/ \E p \in Callers : GtStep(p)
    \/ Tick

\* Every started call is scheduled until it returns, and the provider and
\* the disk answer.
GetSpec ==
    /\ GetInit
    /\ [][GetNext]_vars
    /\ \A p \in Callers : WF_vars(GtStep(p))

\* An authenticated client (refresh token still valid, or issued earlier and
\* expired) on which each caller runs one operation, all within one clock
\* second: the interleavings of the operations alone.
RaceInit ==
    /\ now = 0
    /\ tokens \in {Insert(EmptyStore, REFRESH_TOKEN, rt) :
                     rt \in {AccessToken(0, 1), AccessToken(-2, -1)}}
    /\ file = FileOf(tokens)
    /\ task = [p \in Callers |-> Idle]
    /\ calls = 0
    /\ login = LoginOff

RaceNext ==
    \/ \E p \in Callers : task[p].pc = "idle" /\ Call(p)
    \/ \E p \in Callers : GtStep(p)
    \/ \E p \in Callers : OtherStep(p)

RaceSpec == RaceInit /\ [][RaceNext]_vars

\* The blocks that take self.tokens.read(): client.rs:100-103, 124-127,
\* 149-152, and save_tokens (74-77), whose guard lives through Cache::save.
ReadPcs ==
    {"gt_read_refresh", "gt_read_scope", "sk_read",
     "gt_renew_save", "gt_save", "sk_save", "st_save"}

\* The blocks that take self.tokens.write(): client.rs:81-84, 90-93, 108-111,
\* 137-140, 165-168.
WritePcs == {"st_insert", "cl_clear", "gt_renew_insert", "gt_insert", "sk_insert"}

\* The awaits on the network: client.rs:107, 136, 164.
NetPcs == {"gt_renew", "gt_exchange", "sk_derive"}

\* The guard the step at pc runs under.
LockMode(pc) ==
    CASE pc \in ReadPcs -> "read"
      [] pc \in WritePcs -> "write"
      [] OTHER -> "none"

\* std::sync::RwLock: read() is granted unless a writer holds the lock,
\* write() only when nobody holds it.
Granted(p, mode) ==
    \A q \in Callers \ {p} :
        IF mode = "write" THEN task[q].lock = "none" ELSE task[q].lock # "write"

\* Caller p takes the guard of the block it is about to run; it waits while
\* the lock is not granted.
LockAcquire(p) ==
    /\ task[p].lock = "none"
    /\ LockMode(task[p].pc) # "none"
    /\ Granted(p, LockMode(task[p].pc))
    /\ task' = [task EXCEPT ![p].lock = LockMode(task[p].pc)]
    /\ UNCHANGED <<now, tokens, file, calls, login>>

\* Caller p holds the guard its next step needs.
Holds(p) == LockMode(task[p].pc) = "none" \/ task[p].lock = LockMode(task[p].pc)

LockNext ==
    \/ \E p \in Callers : task[p].pc = "idle" /\ Call(p)
    \/ \E p \in Callers : LockAcquire(p)
    \/ \E p \in Callers : Holds(p) /\ GtStep(p)
    \/ \E p \in Callers : Holds(p) /\ OtherStep(p)

LockSpec == RaceInit /\ [][LockNext]_vars

\* The entries an earlier session left in tokens.json, from which the client
\* of the new login is built (cli/auth.rs:132): a graph token and a skype
\* token issued before second 0, the latter long-lived or about to expire,
\* with or without the old refresh token.
EarlierSession ==
    LET cached(e) == Insert(Insert(EmptyStore, SCOPE_GRAPH,
                                   AccessToken(-1, MaxTime + 1)),
                            SKYPE_TOKEN, AccessToken(-1, e)) IN
      UNION {{cached(e), Insert(cached(e), REFRESH_TOKEN, AccessToken(-2, -1))} :
               e \in {1, MaxTime + 1}}

ReloginInit ==
    /\ now = 0
    /\ tokens \in EarlierSession
    /\ file = FileOf(tokens)
    /\ task = [p \in Callers |-> Idle]
    /\ calls = 0
    /\ login = LoginOff

\* The login stores the token of its poll (cli/auth.rs:133); the commands
\* that follow ask for tokens.
ReloginNext ==
    \/ calls = 0 /\ \E token \in ProviderTokens(now) :
                      CallStoreRefreshToken(Main, token)
    \/ calls > 0 /\ \E scope \in Scopes : CallGetToken(Main, scope)
    \/ calls > 0 /\ CallGetSkypeToken(Main)
    \/ StInsert(Main)
    \/ StSave(Main)
    \/ GtStep(Main)
    \/ SkRead(Main)
    \/ SkCheck(Main)
    \/ SkDerive(Main)
    \/ SkInsert(Main)
    \/ SkSave(Main)
    \/ Tick

ReloginSpec == ReloginInit /\ [][ReloginNext]_vars

\* The token maps a client may hold: any subset of CacheKeys, each with any
\* token of CacheTokens.
CacheKeys == {REFRESH_TOKEN, SCOPE_GRAPH, SKYPE_TOKEN}
CacheTokens == {AccessToken(0, 1), AccessToken(0, 2), AccessToken(1, 2)}
StoreUniverse == UNION {[K -> CacheTokens] : K \in SUBSET CacheKeys}

\* Result<()>::Ok
OkUnit == [ok |-> TRUE, token |-> None, err |-> ""]

\* The process is between two operations on its cache.
CacheIdle == task[Main].pc \in {"idle", "done"}

\* save_tokens (client.rs:74-77): Cache::save(TOKENS_FILE, &tokens).
CacheFlush ==
    /\ CacheIdle
    /\ \E r \in CacheSave(file, tokens) :
         /\ file' = r.file
         /\ Set(Main, Done([Idle EXCEPT !.op = "save", !.saves = 1],
                           IF r.ok THEN OkUnit ELSE Err("CacheIOError")))
    /\ UNCHANGED <<now, tokens, calls, login>>

\* A new process builds its client: TeamsClient::new (client.rs:54-66). When
\* the construction fails there is no client.
CacheNew ==
    /\ CacheIdle
    /\ LET r == NewClient(file) IN
         /\ tokens' = r.tokens
         /\ Set(Main, Done([Idle EXCEPT !.op = "new"],
                           IF r.ok THEN OkUnit ELSE Err("CacheIOError")))
    /\ UNCHANGED <<now, file, calls, login>>

\* Cache::delete(TOKENS_FILE) (cache.rs:50-57). `saves` is 2 when the call
\* follows a delete that returned Ok.
CacheDeleteCall ==
    /\ CacheIdle
    /\ \E r \in CacheDelete(file) :
         /\ file' = r.file
         /\ Set(Main, Done([Idle EXCEPT !.op = "delete",
                                        !.saves = IF /\ task[Main].op = "delete"
                                                     /\ task[Main].ret.ok
                                                  THEN 2 ELSE 1],
                           IF r.ok THEN OkUnit ELSE Err("CacheIOError")))
    /\ UNCHANGED <<now, tokens, calls, login>>

\* A process holding any token map, over any tokens.json.
CacheInit ==
    /\ now = 0
    /\ tokens \in StoreUniverse
    /\ file \in {FileAbsent, FileCorrupt} \cup {FileOf(m) : m \in StoreUniverse}
    /\ task = [p \in Callers |-> Idle]
    /\ calls = 0
    /\ login = LoginOff

CacheNext ==
    \/ CacheFlush
    \/ CacheNew
    \/ CacheDeleteCall
    \/ CallClearTokens(Main)
    \/ ClClear(Main)
    \/ ClDelete(Main)

CacheSpec == CacheInit /\ [][CacheNext]_vars

\* The four exchanges of api/auth.rs.
ExchangeKinds == {"poll", "renew", "exchange", "derive"}

\* The expiry fields a successful response may carry.
ExpiryChars == {"7", "+", "x"}
ExpiryStrings == UNION {[1..n -> ExpiryChars] : n \in 0..MaxChars}
ExpiryFields ==
    {JsonAbsent} \cup {JsonNumber(n) : n \in {-1, 1, 60, 7200}}
                 \cup {JsonString(s) : s \in ExpiryStrings}

\* An exchange of the given kind receives a successful response whose expiry
\* field is v and returns the token built from it (auth.rs:108-124, 164-179,
\* 221-236, 268-287).
Answer(kind) ==
    /\ task[Main].pc \in {"idle", "done"}
    /\ \E v \in ExpiryFields :
         Set(Main, Done([Idle EXCEPT !.op = kind, !.resp = v],
                        Ok(IssuedToken(kind, v, now))))
    /\ UNCHANGED <<now, tokens, file, calls, login>>

ExpiryInit ==
    /\ now = 0
    /\ tokens = EmptyStore
    /\ file = FileAbsent
    /\ task = [p \in Callers |-> Idle]
    /\ calls = 0
    /\ login = LoginOff

ExpiryNext ==
    \/ \E kind \in ExchangeKinds : Answer(kind)
    \/ Tick

ExpirySpec == ExpiryInit /\ [][ExpiryNext]_vars

\* tokens.json as `auth login` may find it.
LoginFiles ==
    LET rt == Insert(EmptyStore, REFRESH_TOKEN, AccessToken(-1, 1)) IN
      {FileAbsent, FileCorrupt, FileOf(rt),
       FileOf(Insert(rt, SCOPE_GRAPH, AccessToken(-1, 2)))}

LoginInit ==
    /\ now = 0
    /\ tokens = EmptyStore
    /\ file \in LoginFiles
    /\ task = [p \in Callers |-> Idle]
    /\ calls = 0
    /\ login = [LoginOff EXCEPT !.pc = "start"]

LoginNext ==
    \/ LoginGenDeviceCode
    \/ LoginPoll
    \/ LoginNewClient
    \/ LoginStoreInsert
    \/ LoginStoreSave
    \/ LoginCancel
    \/ Tick

LoginSpec == LoginInit /\ [][LoginNext]_vars

\* ------------------------------------------------------------------ claims
\* The returning step of caller p.
Returns(p) == task[p].pc # "done" /\ task'[p].pc = "done"

\* C1: whenever get_token reads the store and "refresh_token" is absent,
\* whatever else the store holds, the call returns the NotAuthenticated error
\* in that very step, has sent no network request, has inserted nothing and
\* attempted no cache write, and the map and tokens.json are unchanged.
C1_NotAuthenticated ==
    [][\A p \in Callers :
         (/\ task[p].pc = "gt_read_refresh"
          /\ task'[p] # task[p]
          /\ REFRESH_TOKEN \notin DOMAIN tokens)
         => /\ task'[p].pc = "done"
            /\ task'[p].ret = Err("NotAuthenticated")
            /\ task'[p].net = <<>>
            /\ task'[p].wrote = {}
            /\ task'[p].saves = 0
            /\ tokens' = tokens
            /\ file' = file]_vars

\* C1 witness: get_token(graph) has failed NotAuthenticated on a store that
\* holds a graph entry and no refresh token.
C1_Witness ==
    \E p \in Callers :
        /\ task[p].op = "get_token"
        /\ task[p].pc = "done"
        /\ task[p].ret = Err("NotAuthenticated")
        /\ DOMAIN tokens = {SCOPE_GRAPH}

\* What a call that touched nothing looks like.
Untouched(t) == t.net = <<>> /\ t.wrote = {} /\ t.saves = 0 /\ ~t.cleared

\* get_token's test of caller p found the scope entry present with
\* expires > the clock value it read.
SawUnexpired(t) == t.seen # None /\ Unwrap(t.seen).expires > t.seenAt

\* C2 as stated: a get_token(S) that finds the S entry present and unexpired
\* sends no network request, returns that entry unchanged and modifies
\* nothing.
C2_Original ==
    \A p \in Callers :
        (/\ task[p].op = "get_token"
         /\ task[p].pc = "done"
         /\ SawUnexpired(task[p]))
        => /\ task[p].ret = Ok(Unwrap(task[p].seen))
           /\ Untouched(task[p])

\* C2 amended: a get_token(S) that finds "refresh_token" present with
\* expires >= now and the S entry present and unexpired sends no network
\* request, returns that entry unchanged (value and expires) and modifies
\* neither the map nor tokens.json.
C2_CachedNoNetwork ==
    \A p \in Callers :
        (/\ task[p].op = "get_token"
         /\ task[p].pc = "done"
         /\ task[p].rtTest = "valid"
         /\ SawUnexpired(task[p]))
        => /\ task[p].ret = Ok(Unwrap(task[p].seen))
           /\ Untouched(task[p])

\* C2 witness: a get_token returned the cached entry, in its last second but
\* one, with a refresh token that needed no renewal.
C2_Witness ==
    \E p \in Callers :
        /\ task[p].op = "get_token"
        /\ task[p].pc = "done"
        /\ task[p].rtTest = "valid"
        /\ task[p].seen # None
        /\ Unwrap(task[p].seen).expires = task[p].seenAt + 1
        /\ task[p].ret = Ok(Unwrap(task[p].seen))
        /\ task[p].net = <<>>

\* The call's test of the refresh token found expires < now.
SawRefreshExpired(t) == t.rtTest = "expired"

\* The call's test of the scope entry found none, or one with expires < now.
SawScopeStale(t) == t.seen = None \/ Unwrap(t.seen).expires < t.seenAt

C4_Original ==
    \A p \in Callers :
        task[p].hit => Unwrap(task[p].seen).expires > task[p].seenAt

\* C6 as stated: clear_tokens never returns an error with the in-memory map
\* already emptied, and returns Ok only with the map emptied.
C6_Original ==
    \A p \in Callers :
        (task[p].op = "clear_tokens" /\ task[p].pc = "done")
        => (task[p].ret.ok <=> task[p].cleared)

\* C5 as stated: in every reachable state, "refresh_token" absent from the
\* store implies the store holds no other entry.
C5_Original == (REFRESH_TOKEN \notin DOMAIN tokens) => (DOMAIN tokens = {})

\* C7 as stated: once a clear_tokens has returned Ok, "refresh_token" goes
\* from absent to present, in the map or in tokens.json, only by a step of
\* store_refresh_token.
InFile(k) == file.state = "ok" /\ k \in {x[1] : x \in file.content}

C7_Original ==
    [][(/\ \E q \in Callers : /\ task[q].op = "clear_tokens"
                              /\ task[q].pc = "done"
                              /\ task[q].ret.ok
        /\ \/ REFRESH_TOKEN \notin DOMAIN tokens /\ REFRESH_TOKEN \in DOMAIN tokens'
           \/ ~InFile(REFRESH_TOKEN) /\ InFile(REFRESH_TOKEN)')
       => \E p \in Callers : /\ task[p].op = "store_refresh_token"
                             /\ task'[p] # task[p]]_vars

\* ------------------------------------------------- claims under GetSpec
AllDone == \A p \in Callers : task[p].pc = "done"
Running(p) == task[p].pc \notin {"idle", "done"}

NoFault ==
    \A p \in Callers :
        task[p].ret.err \notin {"TokenExchangeFailed", "CacheIOError"}

\* The store once every caller has returned without fault: a refresh token
\* and every requested scope, each a token some caller obtained (the initial
\* refresh token if none renewed it), each with expires > the second it was
\* issued in, and tokens.json holding exactly the map.
Converged ==
    /\ REFRESH_TOKEN \in DOMAIN tokens
    /\ tokens[REFRESH_TOKEN].expires > tokens[REFRESH_TOKEN].value
    /\ (\E q \in Callers : task[q].renewed # None)
         => \E q \in Callers : task[q].renewed = Some(tokens[REFRESH_TOKEN])
    /\ \A p \in Callers :
         /\ task[p].scope \in DOMAIN tokens
         /\ tokens[task[p].scope].expires > tokens[task[p].scope].value
         /\ \E q \in Callers : task[q].ret.token = Some(tokens[task[p].scope])
    /\ file = FileOf(tokens)

C9_Original ==
    (login.pc = "done" /\ login.token # None)
    => /\ login.ret = "ok"
       /\ login.inserts = 1
       /\ login.writes = 1
       /\ REFRESH_TOKEN \in DOMAIN tokens
       /\ Some(tokens[REFRESH_TOKEN]) = login.token
       /\ file = FileOf(tokens)

\* C10: the polling loop never makes more than max_attempts polls and is
\* over after the last one; a login that ends with every poll answered
\* Pending has made exactly max_attempts polls and ends timed out; and as long
\* as no poll has been answered Authorized (all Pending so far, timed out, or
\* cancelled) no step changes the in-memory store or tokens.json.
C10_TimeoutWritesNothing ==
    [][/\ login'.attempts <= max_attempts
       /\ (login'.pc = "poll" => login'.attempts < max_attempts)
       /\ (login'.timedOut <=>
             (login'.pc = "done" /\ login'.token = None
                /\ login'.attempts = max_attempts))
       /\ (login.pc = "poll" /\ login'.pc = "done") => login'.timedOut
       /\ (login'.token = None)
            => /\ tokens' = tokens
               /\ file' = file
               /\ login'.inserts = 0
               /\ login'.writes = 0]_vars

\* C10 witness: login has timed out after max_attempts polls with a
\* tokens.json in place.
C10_Witness ==
    /\ login.timedOut
    /\ login.attempts = max_attempts
    /\ file.state = "ok"

\* C11 as stated: once a poll has been answered with a denial the flow is
\* over: no further poll is made for that device code and nothing is written
\* to the store or to tokens.json.
C11_Original ==
    [][login.denied => /\ login'.attempts = login.attempts
                       /\ tokens' = tokens
                       /\ file' = file]_vars

\* ------------------------------------------------- claims under SeqSpec
\* C12: when the renewal exchange of a get_token answers with a failure (no
\* renewed token is obtained), the call returns the error in that very step,
\* the only request it has sent is the renewal (no scope exchange), it has
\* inserted nothing and attempted no cache write, and the map and tokens.json
\* are unchanged.
C12_RenewalFailure ==
    [][\A p \in Callers :
         (/\ task[p].pc = "gt_renew"
          /\ task'[p] # task[p]
          /\ task'[p].renewed = None)
         => /\ task'[p].pc = "done"
            /\ task'[p].ret = Err("TokenExchangeFailed")
            /\ Kinds(task'[p].net) = <<"renew">>
            /\ task'[p].wrote = {}
            /\ task'[p].saves = 0
            /\ tokens' = tokens
            /\ file' = file]_vars

\* C12 witness: a get_token has failed on its renewal while the store holds
\* a refresh token and a scope entry.
C12_Witness ==
    \E p \in Callers :
        /\ task[p].op = "get_token"
        /\ task[p].pc = "done"
        /\ task[p].ret = Err("TokenExchangeFailed")
        /\ Kinds(task[p].net) = <<"renew">>
        /\ {REFRESH_TOKEN, SCOPE_GRAPH} \subseteq DOMAIN tokens
        /\ file = FileOf(tokens)

\* C13: when the scope exchange of a get_token(S) answers with a failure (no
\* token is obtained), the call returns the error in that very step, it has
\* not inserted S, and the map and tokens.json are exactly as they were when
\* the exchange was attempted.
C13_ExchangeFailure ==
    [][\A p \in Callers :
         (/\ task[p].pc = "gt_exchange"
          /\ task[p].op = "get_token"
          /\ task'[p] # task[p]
          /\ task'[p].pc # "gt_insert")
         => /\ task'[p].pc = "done"
            /\ task'[p].ret = Err("TokenExchangeFailed")
            /\ task[p].scope \notin task'[p].wrote
            /\ tokens' = tokens
            /\ file' = file]_vars

\* C13 witness: a get_token(S) has failed on its scope exchange, after a
\* renewal, and the expired S entry is still in the map and in tokens.json.
C13_Witness ==
    \E p \in Callers :
        /\ task[p].op = "get_token"
        /\ task[p].pc = "done"
        /\ task[p].ret = Err("TokenExchangeFailed")
        /\ Kinds(task[p].net) = <<"renew", "exchange">>
        /\ task[p].seen # None
        /\ Get(tokens, task[p].scope) = task[p].seen
        /\ file = FileOf(tokens)

\* C14: when get_skype_token tests a "skype_token" entry whose expires is
\* greater than the clock, whatever the spaces entry is, it returns that
\* entry in that very step, having sent no request, inserted nothing and
\* attempted no cache write, and the map and tokens.json are unchanged.
C14_SkypeCached ==
    [][\A p \in Callers :
         (/\ task[p].pc = "sk_check"
          /\ task'[p] # task[p]
          /\ Unwrap(task[p].existing_token).expires > now)
         => /\ task'[p].pc = "done"
            /\ task'[p].ret = Ok(Unwrap(task[p].existing_token))
            /\ Untouched(task'[p])
            /\ tokens' = tokens
            /\ file' = file]_vars

\* C14 witness: get_skype_token returned the cached skype token while the
\* spaces entry had expired.
C14_Witness ==
    \E p \in Callers :
        /\ task[p].op = "get_skype_token"
        /\ task[p].pc = "done"
        /\ task[p].skTest = "hit"
        /\ {SKYPE_TOKEN, SCOPE_SPACES} \subseteq DOMAIN tokens
        /\ task[p].ret = Ok(tokens[SKYPE_TOKEN])
        /\ Unwrap(task[p].seen).expires > task[p].seenAt
        /\ tokens[SCOPE_SPACES].expires < task[p].seenAt

\* A get_skype_token that found no "skype_token" entry and whose
\* get_token(spaces) returned the cached spaces entry, found with
\* expires > the clock.
NoSkypeSpacesValid(t) ==
    /\ t.op = "get_skype_token"
    /\ t.pc = "done"
    /\ t.skTest = "absent"
    /\ t.hit
    /\ SawUnexpired(t)

\* A get_skype_token that returned the cached skype token, found with
\* expires > the clock.
SkypeHit(t) ==
    /\ t.op = "get_skype_token"
    /\ t.pc = "done"
    /\ t.skTest = "hit"
    /\ SawUnexpired(t)

\* C15 as stated: a get_skype_token that finds no "skype_token" and a valid
\* cached spaces token sends exactly one request, the derivation, and stores
\* what it obtains under "skype_token"; a later call that finds that entry
\* unexpired sends nothing and returns it.
C15_Original ==
    \A p \in Callers :
        /\ NoSkypeSpacesValid(task[p])
           => /\ Kinds(task[p].net) = <<"derive">>
              /\ task[p].ret.ok => /\ SKYPE_TOKEN \in DOMAIN tokens
                                   /\ Some(tokens[SKYPE_TOKEN]) = task[p].ret.token
        /\ SkypeHit(task[p])
           => /\ task[p].net = <<>>
              /\ task[p].ret = Ok(Unwrap(task[p].seen))

\* C15 amended: a get_skype_token that finds "refresh_token" present with
\* expires >= now, no "skype_token" and a valid cached spaces token sends
\* exactly one request, the derivation, made with the cached spaces token;
\* unless the endpoint fails it inserts the result under "skype_token" and
\* nothing else and writes the cache once, and when it returns Ok the entry
\* is the returned token and tokens.json holds the map. A later call that
\* finds that entry unexpired sends nothing and returns the stored token.
C15_DeriveOnce ==
    \A p \in Callers :
        /\ (NoSkypeSpacesValid(task[p]) /\ task[p].rtTest = "valid")
           => /\ Kinds(task[p].net) = <<"derive">>
              /\ task[p].net[1].used = Unwrap(task[p].seen)
              /\ task[p].ret.err # "TokenExchangeFailed"
                 => /\ task[p].wrote = {SKYPE_TOKEN}
                    /\ task[p].saves = 1
                    /\ SKYPE_TOKEN \in DOMAIN tokens
              /\ task[p].ret.ok => /\ Some(tokens[SKYPE_TOKEN]) = task[p].ret.token
                                   /\ file = FileOf(tokens)
        /\ SkypeHit(task[p])
           => /\ Untouched(task[p])
              /\ task[p].ret = Ok(Unwrap(task[p].seen))
              /\ Get(tokens, SKYPE_TOKEN) = task[p].seen

\* C15 witness: a get_skype_token derived the skype token from the cached
\* spaces token with one request and returned it.
C15_Witness ==
    \E p \in Callers :
        /\ NoSkypeSpacesValid(task[p])
        /\ task[p].rtTest = "valid"
        /\ task[p].ret.ok
        /\ Kinds(task[p].net) = <<"derive">>
        /\ Get(tokens, SKYPE_TOKEN) = task[p].ret.token

\* ------------------------------------------------ claims under RaceSpec
\* The map m holds a spaces entry with expires > t.
SpacesValid(m, t) ==
    SCOPE_SPACES \in DOMAIN m /\ m[SCOPE_SPACES].expires > t

\* Caller p sends the derivation request in this step.
SendsDerive(p) ==
    /\ Len(task'[p].net) = Len(task[p].net) + 1
    /\ task'[p].net[Len(task'[p].net)].kind = "derive"

\* C16 as stated: whenever a get_skype_token sends the derivation request,
\* and whenever it writes "skype_token", the store holds a spaces entry with
\* expires > now, whatever the other callers do.
C16_Original ==
    [][\A p \in Callers :
         /\ SendsDerive(p) => SpacesValid(tokens', now')
         /\ (task[p].pc = "sk_insert" /\ task'[p].pc = "sk_save")
            => SpacesValid(tokens', now')]_vars

\* ------------------------------------------------ claims under LoginSpec
\* C17 as stated: constructing the client never fails on tokens.json: when
\* login builds its client the construction succeeds, with the empty store
\* when the file is absent or cannot be read or parsed.
C17_Original ==
    [][(login.pc = "new" /\ login' # login)
       => /\ login'.pc = "st_insert"
          /\ file.state # "ok" => tokens' = EmptyStore]_vars

\* ------------------------------------------------- claims under SeqSpec
\* The steps that write tokens.json after an insert.
SavePcs == {"gt_renew_save", "gt_save", "sk_save", "st_save"}

\* C18: when a cache write of store_refresh_token, get_token or
\* get_skype_token leaves tokens.json different from the map, the operation
\* returns the cache error in that very step; and an operation that inserted
\* a token returns Ok only with tokens.json holding exactly the map.
C18_WriteFailureSurfaces ==
    [][\A p \in Callers :
         /\ (/\ task[p].pc \in SavePcs
             /\ task'[p] # task[p]
             /\ file' # FileOf(tokens))
            => /\ task'[p].pc = "done"
               /\ task'[p].ret = Err("CacheIOError")
         /\ (Returns(p) /\ task'[p].ret.ok /\ task'[p].wrote # {})
            => file' = FileOf(tokens')]_vars

\* C18 witness: a get_token obtained and inserted a scope token, the cache
\* write failed, and the call returned the cache error with the token in
\* memory only.
C18_Witness ==
    \E p \in Callers :
        /\ task[p].op = "get_token"
        /\ task[p].pc = "done"
        /\ task[p].ret = Err("CacheIOError")
        /\ task[p].scope \in task[p].wrote
        /\ task[p].scope \in DOMAIN tokens
        /\ file # FileOf(tokens)

C20_DeleteIdempotent ==
    [][/\ (/\ task[Main].op = "delete"
           /\ task[Main].ret.ok
           /\ task'[Main].op = "delete")
          => /\ task'[Main].ret.ok
             /\ file' = file
             /\ tokens' = tokens
       /\ (task'[Main].op = "delete" /\ task'[Main].ret.ok)
          => file' = FileAbsent
       /\ (/\ task[Main].pc \in {"cl_clear", "cl_delete"}
           /\ task'[Main] # task[Main]
           /\ tokens = EmptyStore
           /\ file = FileAbsent)
          => /\ tokens' = tokens
             /\ file' = file
             /\ task'[Main].pc = "done" => task'[Main].ret.ok]_vars

\* C20 witness: a second delete in a row has returned Ok.
C20_Witness ==
    /\ task[Main].op = "delete"
    /\ task[Main].saves = 2
    /\ task[Main].ret.ok
    /\ file = FileAbsent
    /\ tokens # EmptyStore

\* ------------------------------------------------ claims under LoginSpec
\* C21 as stated: a login whose device-code issuance failed has returned an
\* error without making any poll, and a login that exhausted its attempt
\* budget has returned an error.
C21_Original ==
    (login.pc = "done")
    => /\ (login.attempts = 0 => login.ret = "err")
       /\ (login.timedOut => login.ret = "err")

\* ----------------------------------------------- claims under ExpirySpec
\* The number of seconds an expiry field declares: a non-negative JSON
\* number, or a JSON string of decimal digits.
Declared(v) ==
    CASE v.type = "number" /\ v.n >= 0 -> Some(v.n)
      [] v.type = "string" /\ Len(v.s) > 0 -> Digits(v.s)
      [] OTHER -> None

\* C22 as stated: for each of the four exchanges, a successful response with
\* no expiry field yields a token with expires = issue time + 3600, and one
\* that declares an expiry yields expires = issue time + the declared number
\* of seconds.
C22_Original ==
    (task[Main].op \in ExchangeKinds)
    => LET v == task[Main].resp
           token == Unwrap(task[Main].ret.token) IN
         /\ task[Main].ret.ok
         /\ (v = JsonAbsent) => token.expires = token.value + DefaultExpiresIn
         /\ (Declared(v) # None)
              => token.expires = token.value + Unwrap(Declared(v))

\* ------------------------------------------------- claims under GetSpec
\* Caller p sends its scope exchange request in this step.
SendsExchange(p) ==
    /\ Len(task'[p].net) = Len(task[p].net) + 1
    /\ task'[p].net[Len(task'[p].net)].kind = "exchange"

\* C23: in a get_token that renews the refresh token, the insert of the
\* renewed token makes it the store's "refresh_token"; the flush that
\* follows, when it succeeds, leaves tokens.json holding the map with a
\* "refresh_token" entry; the scope exchange request is sent only after that
\* insert and that flush, with the renewed token and not the stale one; and
\* when the flush fails the call returns the cache error having sent the
\* renewal only.
C23_RenewBeforeExchange ==
    [][\A p \in Callers :
         /\ (task[p].pc = "gt_renew_insert" /\ task'[p] # task[p])
            => /\ tokens'[REFRESH_TOKEN] = Unwrap(task[p].renewed)
               /\ task'[p].net = task[p].net
         /\ (task[p].pc = "gt_renew_save" /\ task'[p].pc = "gt_read_scope")
            => /\ file' = FileOf(tokens)
               /\ InFile(REFRESH_TOKEN)'
               /\ task'[p].net = task[p].net
         /\ (task[p].pc = "gt_renew_save" /\ task'[p].pc = "done")
            => /\ task'[p].ret = Err("CacheIOError")
               /\ Kinds(task'[p].net) = <<"renew">>
         /\ (SendsExchange(p) /\ task[p].renewed # None)
            => /\ Kinds(task'[p].net) = <<"renew", "exchange">>
               /\ REFRESH_TOKEN \in task[p].wrote
               /\ task[p].saves = 1
               /\ task'[p].net[2].used = Unwrap(task[p].renewed)
               /\ task'[p].net[2].used # task'[p].net[1].used]_vars

\* C23 witness: a caller has sent its scope exchange with the token its
\* renewal obtained, after inserting and flushing it.
C23_Witness ==
    \E p \in Callers :
        /\ task[p].pc = "gt_exchange"
        /\ task[p].renewed # None
        /\ Kinds(task[p].net) = <<"renew", "exchange">>
        /\ task[p].net[2].used = Unwrap(task[p].renewed)
        /\ task[p].saves = 1

\* ------------------------------------------------ claims under LockSpec
\* C24: a caller waiting on a network exchange holds no guard; a guard is
\* held only on entry to the block that takes it (the write guard only
\* before an insert or the clear) and at most one writer, alone, holds the
\* lock; the step made under the write guard is one in-memory insert or the
\* clear, with no request sent and no file written, and ends with the guard
\* dropped; and while a caller waits on the network with the others holding
\* nothing, any caller about to read or mutate the map is granted the lock.
C24_LockDiscipline ==
    /\ [](\A p \in Callers :
            /\ task[p].pc \in NetPcs => task[p].lock = "none"
            /\ task[p].lock \in {"none", LockMode(task[p].pc)}
            /\ task[p].lock = "write"
                 => \A q \in Callers \ {p} : task[q].lock = "none"
            /\ \A q \in Callers \ {p} :
                 (/\ task[p].pc \in NetPcs
                  /\ task[q].lock = "none"
                  /\ LockMode(task[q].pc) # "none"
                  /\ \A r \in Callers \ {p, q} : task[r].lock = "none")
                 => ENABLED LockAcquire(q))
    /\ [][\A p \in Callers :
            (task[p].lock = "write" /\ task'[p] # task[p])
            => /\ task'[p].lock = "none"
               /\ \/ tokens' = EmptyStore /\ task'[p].cleared
                  \/ \E k \in task'[p].wrote :
                       /\ k \in DOMAIN tokens'
                       /\ tokens' = Insert(tokens, k, tokens'[k])
               /\ file' = file
               /\ task'[p].net = task[p].net]_vars

\* C24 witness: one caller waits on its scope exchange while the other holds
\* the write guard for its insert.
C24_Witness ==
    \E p, q \in Callers :
        /\ task[p].pc = "gt_exchange"
        /\ task[p].lock = "none"
        /\ task[q].pc \in {"gt_insert", "gt_renew_insert", "cl_clear"}
        /\ task[q].lock = "write"

\* ------------------------------------------------ claims under RaceSpec
\* The map tokens.json stands for: the empty map when there is no file.
FileMap ==
    IF file.state = "absent" THEN EmptyStore ELSE Deserialize(file.content)

\* C25 as stated: whenever no operation is in progress and no file I/O has
\* failed, tokens.json holds exactly the in-memory map (no file counting as
\* the empty map), under any interleaving of the callers' operations.
C25_Original ==
    (/\ \A p \in Callers : ~Running(p)
     /\ \A p \in Callers : task[p].ret.err # "CacheIOError")
    => /\ file.state # "corrupt"
       /\ FileMap = tokens

\* ------------------------------------------------- claims under SeqSpec
\* r of the minimal chain: 1 when the call found refresh_token.expires < now.
ChainR(t) == IF t.rtTest = "expired" THEN 1 ELSE 0

\* s of the minimal chain: 0 when the call found the scope entry present and
\* unexpired (expires > now), 1 when it found it absent or expired.
ChainS(t) == IF SawUnexpired(t) THEN 0 ELSE 1

\* C26 as stated: a successful get_token(S) has sent exactly r + s requests,
\* the renewal before the scope exchange; a successful get_skype_token that
\* found no unexpired "skype_token" has sent that many for the spaces scope
\* plus exactly one derivation.
C26_Original ==
    \A p \in Callers :
        /\ (task[p].op = "get_token" /\ task[p].pc = "done" /\ task[p].ret.ok)
           => /\ Len(task[p].net) = ChainR(task[p]) + ChainS(task[p])
              /\ Kinds(task[p].net) \in
                   {<<>>, <<"renew">>, <<"exchange">>, <<"renew", "exchange">>}
        /\ (/\ task[p].op = "get_skype_token"
            /\ task[p].pc = "done"
            /\ task[p].ret.ok
            /\ ~(task[p].skTest = "hit" /\ SawUnexpired(task[p])))
           => /\ Len(task[p].net) = ChainR(task[p]) + ChainS(task[p]) + 1
              /\ Len(task[p].net) <= 3
              /\ task[p].net[Len(task[p].net)].kind = "derive"

\* The keys a store may hold.
AllKeys == Scopes \cup {REFRESH_TOKEN, SKYPE_TOKEN}

\* The entries a getter may change.
FrameKeys(t) ==
    IF t.op = "get_skype_token"
    THEN {REFRESH_TOKEN, SCOPE_SPACES, SKYPE_TOKEN}
    ELSE {REFRESH_TOKEN, t.scope}

\* A step of caller p inside a get_token or a get_skype_token.
GetterStep(p) ==
    /\ task[p].op \in {"get_token", "get_skype_token"}
    /\ task[p].pc \notin {"idle", "done"}
    /\ task'[p] # task[p]

\* The member of tokens.json for key k (none without a readable file).
FileEntry(f, k) == {x \in f.content : x[1] = k}

\* The step keeps every entry of the map, changes none outside K and adds
\* none outside K.
KeepsMemory(K) ==
    /\ DOMAIN tokens \subseteq DOMAIN tokens'
    /\ DOMAIN tokens' \subseteq DOMAIN tokens \cup K
    /\ \A k \in DOMAIN tokens \ K : tokens'[k] = tokens[k]

\* The step keeps every member of tokens.json and changes none outside K.
KeepsFile(K) ==
    /\ \A k \in AllKeys : FileEntry(file, k) # {} => FileEntry(file', k) # {}
    /\ \A k \in AllKeys \ K : FileEntry(file', k) = FileEntry(file, k)

\* tokens.json holds the map but for the entries of K.
AgreesExcept(K) ==
    /\ file.state # "corrupt"
    /\ \A k \in AllKeys \ K : FileEntry(file, k) = FileEntry(FileOf(tokens), k)

\* C27 as stated: a step of get_token(S) changes at most "refresh_token" and
\* S, a step of get_skype_token at most "refresh_token", the spaces entry
\* and "skype_token"; every other entry keeps its value and expires in the
\* map and in tokens.json, and no entry is removed from either.
C27_Original ==
    [][\A p \in Callers :
         GetterStep(p)
         => /\ KeepsMemory(FrameKeys(task[p]))
            /\ KeepsFile(FrameKeys(task[p]))]_vars

\* C27 amended: in the map, a step of get_token(S) changes at most
\* "refresh_token" and S and a step of get_skype_token at most
\* "refresh_token", the spaces entry and "skype_token", every other entry
\* keeps its value and expires, and no entry is removed. tokens.json is
\* changed only by the call's cache writes; a write that succeeds leaves it
\* holding exactly the map, and then, provided it held the map but for the
\* entries the call inserted, every other entry keeps its value and expires
\* in the file and none is removed from it.
C27_GetterFrame ==
    [][\A p \in Callers :
         GetterStep(p)
         => /\ KeepsMemory(FrameKeys(task[p]))
            /\ task[p].wrote \subseteq FrameKeys(task[p])
            /\ file' # file => task[p].pc \in SavePcs
            /\ (task[p].pc \in SavePcs /\ task'[p].ret.err # "CacheIOError")
               => /\ file' = FileOf(tokens)
                  /\ AgreesExcept(task[p].wrote)
                       => KeepsFile(FrameKeys(task[p]))]_vars

\* C27 witness: a get_skype_token has inserted and flushed the spaces entry
\* and "skype_token" while the map and tokens.json held a graph entry, which
\* both still hold.
C27_Witness ==
    \E p \in Callers :
        /\ task[p].op = "get_skype_token"
        /\ task[p].pc = "done"
        /\ task[p].ret.ok
        /\ {SCOPE_SPACES, SKYPE_TOKEN} \subseteq task[p].wrote
        /\ SCOPE_GRAPH \in DOMAIN tokens
        /\ tokens[SCOPE_GRAPH] = AccessToken(-1, 1)
        /\ file = FileOf(tokens)

\* ---------------------------------------------- claims under ReloginSpec
\* The call returned, from the cache, an entry issued before the new login
\* that its test found with expires > now.
ReturnsEarlier(t) ==
    /\ t.pc = "done"
    /\ t.seen # None
    /\ Unwrap(t.seen).value < 0
    /\ Unwrap(t.seen).expires > t.seenAt

\* The insert and the flush of store_refresh_token set "refresh_token" to
\* the token handed over and leave every other entry of the map as it was.
StoreFrame ==
    \A p \in Callers :
        /\ (task[p].pc = "st_insert" /\ task'[p] # task[p])
           => /\ DOMAIN tokens' = DOMAIN tokens \cup {REFRESH_TOKEN}
              /\ tokens'[REFRESH_TOKEN] = Unwrap(task[p].new_token)
              /\ \A k \in DOMAIN tokens \ {REFRESH_TOKEN} : tokens'[k] = tokens[k]
        /\ (task[p].pc = "st_save" /\ task'[p] # task[p]) => tokens' = tokens

\* C28 as stated: store_refresh_token sets exactly "refresh_token" and
\* leaves the other entries unchanged, and a scope token or skype token
\* cached before the new login is returned by get_token / get_skype_token
\* with no network call whenever the call finds it unexpired.
C28_Original ==
    /\ [][StoreFrame]_vars
    /\ [](\A p \in Callers :
            (task[p].op \in {"get_token", "get_skype_token"}
               /\ ReturnsEarlier(task[p]))
            => /\ task[p].ret = Ok(Unwrap(task[p].seen))
               /\ task[p].net = <<>>)

\* C28 amended: store_refresh_token sets exactly "refresh_token" to the
\* token handed over and leaves every other entry unchanged; a skype token
\* cached before the new login is returned by get_skype_token with no network
\* call whenever the call finds it unexpired, and a scope token cached before
\* it is returned by get_token with no network call whenever the call finds
\* it unexpired and finds the stored refresh token with expires >= now.
C28_StoreKeepsCached ==
    /\ [][StoreFrame]_vars
    /\ [](\A p \in Callers :
            /\ (/\ task[p].op = "get_token"
                /\ ReturnsEarlier(task[p])
                /\ task[p].rtTest = "valid")
               => /\ task[p].ret = Ok(Unwrap(task[p].seen))
                  /\ Untouched(task[p])
                  /\ Get(tokens, task[p].scope) = task[p].seen
            /\ (/\ task[p].op = "get_skype_token"
                /\ task[p].skTest = "hit"
                /\ ReturnsEarlier(task[p]))
               => /\ task[p].ret = Ok(Unwrap(task[p].seen))
                  /\ Untouched(task[p])
                  /\ Get(tokens, SKYPE_TOKEN) = task[p].seen)

\* C28 witness: after the new login stored its refresh token, a get_token
\* returned the graph token of the earlier session without a request.
C28_Witness ==
    \E p \in Callers :
        /\ task[p].op = "get_token"
        /\ ReturnsEarlier(task[p])
        /\ task[p].hit
        /\ task[p].net = <<>>
        /\ tokens[REFRESH_TOKEN].value >= 0
        /\ now > 0

\* ------------------------------------------------------------ CLI commands
\* No command is running.
CmdIdle ==
    /\ task[Main].pc \in {"idle", "done"}
    /\ login.pc \in {"off", "done", "cancelled"}

\* A command other than `auth login` starts, in a new process: let client =
\* TeamsClient::new(config)? (cli/auth.rs:152, 180, 187 and every API
\* command), then the operation whose record is t; when the construction
\* fails the command ends with that error.
CmdStart(t) ==
    /\ CmdIdle
    /\ calls < MaxCalls
    /\ calls' = calls + 1
    /\ LET r == NewClient(file) IN
         /\ tokens' = r.tokens
         /\ IF r.ok
            THEN Set(Main, t)
            ELSE Set(Main, Done([t EXCEPT !.pc = "new"], Err("CacheIOError")))
    /\ login' = LoginOff
    /\ UNCHANGED <<now, file>>

\* `auth logout` (cli/auth.rs:179-184): client.clear_tokens()?
CmdLogout == CmdStart([Idle EXCEPT !.op = "clear_tokens", !.pc = "cl_clear"])

\* An API command asks for the token of its scope, or for the skype token.
CmdGetToken ==
    \E scope \in Scopes :
        CmdStart([Idle EXCEPT !.op = "get_token", !.pc = "gt_read_refresh",
                              !.scope = scope])

CmdGetSkypeToken ==
    CmdStart([Idle EXCEPT !.op = "get_skype_token", !.pc = "sk_read"])

\* `auth status` and `auth refresh` (cli/auth.rs:151-177, 186-208): when
\* is_authenticated(), client.get_me(), which asks for the graph token
\* (client.rs:209); otherwise a message only.
CmdStatus ==
    CmdStart(IF refresh_token(NewClient(file).tokens) # None
             THEN [Idle EXCEPT !.op = "get_token", !.pc = "gt_read_refresh",
                               !.scope = SCOPE_GRAPH]
             ELSE Done([Idle EXCEPT !.op = "status"], OkUnit))

\* `auth login` starts, in a new process (cli/auth.rs:59); it has no client
\* until a poll is authorized.
CmdLogin ==
    /\ CmdIdle
    /\ calls < MaxCalls
    /\ calls' = calls + 1
    /\ login' = [LoginOff EXCEPT !.pc = "start"]
    /\ tokens' = EmptyStore
    /\ task' = [task EXCEPT ![Main] = Idle]
    /\ UNCHANGED <<now, file>>

\* tokens.json as a command may find it: as `auth login` may, or holding an
\* expired refresh token.
CmdFiles ==
    LoginFiles \cup
      {FileOf(Insert(EmptyStore, REFRESH_TOKEN, AccessToken(-2, -1)))}

CmdInit ==
    /\ now = 0
    /\ tokens = EmptyStore
    /\ file \in CmdFiles
    /\ task = [p \in Callers |-> Idle]
    /\ calls = 0
    /\ login = LoginOff

CmdNext ==
    \/ CmdLogout
    \/ CmdGetToken
    \/ CmdGetSkypeToken
    \/ CmdStatus
    \/ CmdLogin
    \/ GtStep(Main)
    \/ SkRead(Main)
    \/ SkCheck(Main)
    \/ SkDerive(Main)
    \/ SkInsert(Main)
    \/ SkSave(Main)
    \/ ClClear(Main)
    \/ ClDelete(Main)
    \/ LoginGenDeviceCode
    \/ LoginPoll
    \/ LoginNewClient
    \/ LoginStoreInsert
    \/ LoginStoreSave
    \/ LoginCancel

CmdSpec == CmdInit /\ [][CmdNext]_vars

C30_RenewalKept ==
    [][\A p \in Callers :
         /\ (/\ task[p].pc = "gt_exchange"
             /\ task'[p].pc = "done"
             /\ task[p].renewed # None)
            => /\ task'[p].ret = Err("TokenExchangeFailed")
               /\ task'[p].renewed = task[p].renewed
               /\ refresh_token(tokens') = task[p].renewed
               /\ file'.state = "ok"
               /\ FileEntry(file', REFRESH_TOKEN)
                    = FileEntry(FileOf(tokens'), REFRESH_TOKEN)
               /\ NewClient(file').ok
               /\ refresh_token(NewClient(file').tokens) = task[p].renewed
         /\ (/\ task[p].pc = "gt_check_refresh"
             /\ task'[p] # task[p]
             /\ Unwrap(task[p].refresh_token).expires >= now)
            => /\ task'[p].pc = "gt_read_scope"
               /\ task'[p].net = task[p].net
               /\ task'[p].renewed = None
               /\ tokens' = tokens]_vars

\* C30 witness: a get_token renewed the refresh token, failed on its scope
\* exchange, and the renewed token, still unexpired, is what the map holds
\* and what a client built from tokens.json would hold.
C30_Witness ==
    \E p \in Callers :
        /\ task[p].op = "get_token"
        /\ task[p].pc = "done"
        /\ task[p].ret = Err("TokenExchangeFailed")
        /\ task[p].renewed # None
        /\ refresh_token(tokens) = task[p].renewed
        /\ NewClient(file).tokens = tokens
        /\ Unwrap(task[p].renewed).expires > now

====
